---- MODULE Spec2Model ----
(***************************************************************************)
(* Model of DecryptionService.decrypt (src/src/crypto/decryption.ts) of    *)
(* ts-it-crypto: the verification state machine that turns a JWE token     *)
(* into a SignedLog, together with the tokens it is run on.                *)
(*                                                                         *)
(* Cryptography is symbolic: a signature names the key that made it, a     *)
(* wrapped content key names the key that unwraps it, a certificate names  *)
(* the key it certifies.  User ids are strings, modelled as sequences of   *)
(* one-character strings, so that Array.prototype.toString (a join with    *)
(* ",") is computed as the runtime computes it.  The AEAD tag names the iv, *)
(* the protected header and the ciphertext it authenticates.               *)
(*                                                                         *)
(* Spec runs one call at a time (and shares or changes a decrypted token); *)
(* SpecConcurrent runs several calls interleaved at their awaits.          *)
(***************************************************************************)
EXTENDS Integers, Sequences, FiniteSets, TLC

\* ------------------------------------------------------------------ bounds
\* Longest recipient list (in a SharedLog, in a protected header, in a share).
MaxRecipients == 2
\* Number of times a decrypted SignedLog is shared again.
MaxShares == 1
\* the decrypt calls that run at the same time
NumCalls == 2

\* ------------------------------------------------------------------- users
IdA == <<"a">>
IdB == <<"b">>
\* a user id that contains a comma: the string "a,b"
IdAB == <<"a", ",", "b">>
\* an id no resolver entry exists for
IdZ == <<"z">>
\* the id "a,a": no user of the directory, used in recipient lists only
IdAA == <<"a", ",", "a">>

\* the users the resolver knows; each owns a signing and a decryption key
UserIds == {IdA, IdB, IdAB}
\* the users whose isMonitor flag is set
Monitors == {IdA}

\* RemoteUser: { id, verificationCertificate, encryptionCertificate, isMonitor }
RemoteUser(id) ==
  [id |-> id,
   verificationCertificate |-> [certifies |-> id],
   encryptionCertificate |-> [certifies |-> id],
   isMonitor |-> id \in Monitors]

\* AuthenticatedUser: a RemoteUser that also owns the private keys
AuthenticatedUser(id) ==
  [id |-> id, signingKey |-> [privateOf |-> id], decryptionKey |-> [privateOf |-> id]]

\* the resolver of the tests: createFetchSender([...users])
FetchUserKnows(id) == id \in UserIds
FetchUser(id) == RemoteUser(id)

\* ------------------------------------------------------------- encodings
\* JSON text of a value, and its parse
ToJson(v) == [json |-> v]
FromJson(s) == s.json
\* base64url text of a string, and Buffer.from(text, 'base64').toString()
Base64Encode(s) == [base64 |-> s]
Base64Decode(t) == t.base64
\* bytes of a string, and new TextDecoder().decode(bytes)
TextEncode(s) == [utf8 |-> s]
TextDecode(b) == b.utf8

\* --------------------------------------------------------------- JWS, JWE
\* a flattened JWS over a JSON text, signed with the signing key of `signer`
SignJws(jsonText, signer) ==
  [payload |-> Base64Encode(jsonText),
   protected |-> "ES256",
   signature |-> [signedWith |-> signer]]

\* jose flattenedVerify: the signature verifies under the certificate's key
FlattenedVerifyOk(jws, certificate) == jws.signature.signedWith = certificate.certifies

\* the payload bytes flattenedVerify returns
FlattenedVerifyPayload(jws) == TextEncode(Base64Decode(jws.payload))

\* AccessLog.fromBytes / SharedLog.fromBytes
FromBytes(bytes) == FromJson(TextDecode(bytes))

\* a content key wrapped for the decryption key of user `id`
WrappedFor(id) == [wrappedFor |-> id]
RecipientEntry(id) == [encrypted_key |-> WrappedFor(id), header |-> "ECDH-ES+A256KW"]

\* the value of a missing object property
Undefined == [undefined |-> TRUE]
Get(obj, key) == IF key \in DOMAIN obj THEN obj[key] ELSE Undefined

\* ---------------------------------------------------------------- strings
RECURSIVE Join(_)
\* Array.prototype.toString of an array of strings: the elements joined by ","
Join(arr) ==
  IF arr = <<>> THEN <<>>
  ELSE IF Len(arr) = 1 THEN arr[1]
  ELSE arr[1] \o <<",">> \o Join(Tail(arr))

ArrayToString(arr) == Join(arr)

\* Array.prototype.includes
Includes(arr, x) == \E i \in 1..Len(arr) : arr[i] = x


\* ------------------------------------------------------------------- logs
\* the fields of an AccessLog that neither names a party: tool, justification,
\* timestamp, accessKind, dataTypes, id
LogBodies ==
  {[tool |-> "tool", justification |-> "js-it-crypto", timestamp |-> 30,
    accessKind |-> "ts-it-crypto", dataTypes |-> <<"email", "address">>, id |-> "id-1"],
   [tool |-> "tool", justification |-> "jus", timestamp |-> 30,
    accessKind |-> "direct", dataTypes |-> <<"email", "address">>, id |-> "id-2"]}

DefaultBody == CHOOSE b \in LogBodies : b.id = "id-1"

\* new AccessLog(monitor, owner, tool, justification, timestamp, accessKind, dataTypes)
AccessLog(monitor, owner, body) ==
  [monitor |-> monitor, owner |-> owner, tool |-> body.tool,
   justification |-> body.justification, timestamp |-> body.timestamp,
   accessKind |-> body.accessKind, dataTypes |-> body.dataTypes, id |-> body.id]

\* new SharedLog(log, creator, owner, recipients)
SharedLog(log, creator, owner, recipients) ==
  [log |-> log, creator |-> creator, owner |-> owner, recipients |-> recipients]

\* new SignedLog(jws)
SignedLog(jws) == [jws |-> jws]

\* SignedLog.extract(): decodes the payload, does not verify
Extract(signedLog) == FromJson(Base64Decode(signedLog.jws.payload))

\* user.signAccessLog(accessLog)
SignAccessLog(accessLog, signer) == SignedLog(SignJws(ToJson(accessLog), signer))

\* ----------------------------------------------------------------- tokens
\* AES-GCM of the plaintext under the content key
Seal(plaintext) == [sealed |-> plaintext]
Open(ciphertext) == ciphertext.sealed

\* the initialisation vector of a token
Iv == [iv |-> "iv-0"]

\* the GCM tag: it authenticates the iv, the protected header (the additional
\* authenticated data, Undefined when the token has none) and the ciphertext
AeadTag(iv, aad, ciphertext) == [tagOver |-> <<iv, aad, ciphertext>>]

\* a JSON text cut short: JSON.parse throws a SyntaxError on it
Truncate(text) == [truncated |-> TRUE] @@ text
ParsesAsJson(text) == "truncated" \notin DOMAIN text

\* the general form: a recipients array with one entry per key holder
JweGeneral(protectedHeader, keyHolders, jwsSharedLog) ==
  [protected |-> protectedHeader,
   recipients |-> [i \in 1..Len(keyHolders) |-> RecipientEntry(keyHolders[i])],
   iv |-> Iv,
   ciphertext |-> Seal(TextEncode(ToJson(jwsSharedLog))),
   tag |-> AeadTag(Iv, protectedHeader, Seal(TextEncode(ToJson(jwsSharedLog))))]

\* the flattened form of go-jose and python-jose for one recipient
JweFlattened(protectedHeader, keyHolder, jwsSharedLog) ==
  [protected |-> protectedHeader,
   encrypted_key |-> WrappedFor(keyHolder),
   header |-> "ECDH-ES+A256KW",
   iv |-> Iv,
   ciphertext |-> Seal(TextEncode(ToJson(jwsSharedLog))),
   tag |-> AeadTag(Iv, protectedHeader, Seal(TextEncode(ToJson(jwsSharedLog))))]

\* the general form of go-jose: a recipients array and, beside it, a top-level
\* encrypted_key and header
JweGeneralWithTopLevel(protectedHeader, keyHolders, topLevelHolder, jwsSharedLog) ==
  [encrypted_key |-> WrappedFor(topLevelHolder), header |-> "ECDH-ES+A256KW"]
    @@ JweGeneral(protectedHeader, keyHolders, jwsSharedLog)

\* a token without a protected header (enc carried in the unprotected header)
JweUnprotected(keyHolders, jwsSharedLog) ==
  [unprotected |-> [enc |-> "A256GCM"],
   recipients |-> [i \in 1..Len(keyHolders) |-> RecipientEntry(keyHolders[i])],
   iv |-> Iv,
   ciphertext |-> Seal(TextEncode(ToJson(jwsSharedLog))),
   tag |-> AeadTag(Iv, Undefined, Seal(TextEncode(ToJson(jwsSharedLog))))]

\* the token with the text of its plaintext cut short, sealed and tagged anew
WithTruncatedPlaintext(token) ==
  LET ciphertext == Seal(TextEncode(Truncate(TextDecode(Open(token.ciphertext)))))
  IN  [token EXCEPT !.ciphertext = ciphertext,
                    !.tag = AeadTag(token.iv, Get(token, "protected"), ciphertext)]

\* the protected header of a token: enc, owner, recipients
SharedHeader(owner, recipients) ==
  [enc |-> "A256GCM", owner |-> owner, recipients |-> recipients]

\* EncryptionService.encrypt(signedLog, sender, receivers)
Encrypt(signedLog, sender, receivers) ==
  LET owner == Extract(signedLog).owner
      sharedLog == SharedLog(signedLog.jws, sender, owner, receivers)
      jwsSharedLog == SignJws(ToJson(sharedLog), sender)
  IN  JweGeneral(SharedHeader(owner, receivers), receivers, jwsSharedLog)


\* ----------------------------------------------------------------- errors
NoError == ""
ErrDecryptionFailed == "decryption operation failed"
\* whatever the resolver throws for an id it does not know
ErrUnknownUser == "UnknownUser"
ErrSharedLog == "Could not verify SharedLog."
ErrUnauthorisedMonitor == "Claimed monitor is not authorized to sign logs."
ErrAccessLog == "Could not verify AccessLog."
ErrMissingHeader == "Malformed data: Missing protected header!"
ErrRecipients == "Malformed data: Sets of recipients are not equal!"
ErrNotRecipient == "Malformed data: Decrypting user not specified in recipients!"
ErrOwner == "Malformed data: The specified owners are not equal!"
ErrSharer == "Malformed data: Only the owner or the monitor of the AccessLog are allowed to share."
ErrMonitorShare == "Malformed data: Monitors can only share the data with the owner of the log."
\* metaRecipients.toString() when the protected header has no recipients
ErrTypeError == "TypeError: Cannot read properties of undefined (reading 'toString')"

\* JSON.parse of a text that is not JSON
ErrSyntax == "SyntaxError: Unexpected end of JSON input"

MalformedData ==
  {ErrMissingHeader, ErrRecipients, ErrNotRecipient, ErrOwner, ErrSharer, ErrMonitorShare}

\* ------------------------------------------------- decrypt, step by step
\* a normalisation applied to every token, a recipients array or not
NormaliseAlways(parsed) ==
  [recipients |-> <<[encrypted_key |-> Get(parsed, "encrypted_key"),
                     header |-> Get(parsed, "header")]>>]
    @@ [k \in DOMAIN parsed \ {"recipients"} |-> parsed[k]]

\* a normalisation that reads the key of a flattened token under a name the
\* token does not have
NormaliseWithoutKey(parsed) ==
  IF "recipients" \in DOMAIN parsed THEN parsed
  ELSE [recipients |-> <<[encrypted_key |-> Get(parsed, "encryptedKey"),
                          header |-> Get(parsed, "header")]>>] @@ parsed

\* if (!('recipients' in jweObj)) jweObj['recipients'] = [{encrypted_key, header}]
Normalise(parsed) ==
  IF "recipients" \in DOMAIN parsed THEN parsed
  ELSE [recipients |-> <<[encrypted_key |-> Get(parsed, "encrypted_key"),
                          header |-> Get(parsed, "header")]>>] @@ parsed

\* AES key unwrap of one recipient entry under the receiver's key
Unwraps(entry, decryptionKey) ==
  entry.encrypted_key = WrappedFor(decryptionKey.privateOf)

\* a tag test that leaves the protected header out of what is authenticated
AeadOkWithoutAad(obj) ==
  /\ "tagOver" \in DOMAIN obj.tag /\ "flipped" \notin DOMAIN obj.tag
  /\ obj.tag.tagOver[1] = obj.iv
  /\ obj.tag.tagOver[3] = obj.ciphertext

\* AES-GCM: the tag is the one of this iv, protected header and ciphertext
AeadOk(obj) ==
  obj.tag = AeadTag(obj.iv, Get(obj, "protected"), obj.ciphertext)

\* a JWE decryption that unwraps the key and releases the content whatever the tag
KeyUnwrapOnly(obj, decryptionKey) ==
  \E i \in 1..Len(obj.recipients) : Unwraps(obj.recipients[i], decryptionKey)

\* jose generalDecrypt: some recipient entry unwraps under the key and the
\* content decrypts under the unwrapped key
GeneralDecryptOk(obj, decryptionKey) ==
  /\ \E i \in 1..Len(obj.recipients) : Unwraps(obj.recipients[i], decryptionKey)
  /\ AeadOk(obj)

\* the GeneralDecryptResult: plaintext and, when the token has one, protectedHeader
GeneralDecryptResult(obj) ==
  IF "protected" \in DOMAIN obj
  THEN [plaintext |-> Open(obj.ciphertext), protectedHeader |-> obj.protected]
  ELSE [plaintext |-> Open(obj.ciphertext)]

\* DecryptionService._claimedCreator
ClaimedCreator(jwsShared) == FromJson(Base64Decode(jwsShared.payload)).creator

\* DecryptionService._claimedMonitor
ClaimedMonitor(jwsAccess) == FromJson(Base64Decode(jwsAccess.payload)).monitor

\* a SharedLog verification that looks at the algorithm and at no signature
SharedLogUnverified(jwsShared, sender) ==
  IF jwsShared.protected = "ES256" THEN NoError ELSE ErrSharedLog

\* DecryptionService._verifySharedLog: "" or the error it throws
VerifySharedLogError(jwsShared, sender) ==
  IF FlattenedVerifyOk(jwsShared, sender.verificationCertificate)
  THEN NoError ELSE ErrSharedLog

\* a monitor test that lets every user of the directory pass
AnyUserAuthorised(sender) == sender.isMonitor \/ FetchUserKnows(sender.id)

\* the isMonitor test of DecryptionService._verifyAccessLog
MonitorAuthorised(sender) == sender.isMonitor

\* an AccessLog verification that tests the monitor flag and no signature
AccessLogUnverified(jwsAccess, sender) ==
  IF ~sender.isMonitor THEN ErrUnauthorisedMonitor ELSE NoError

\* DecryptionService._verifyAccessLog: "" or the error it throws
VerifyAccessLogError(jwsAccess, sender) ==
  IF ~MonitorAuthorised(sender) THEN ErrUnauthorisedMonitor
  ELSE IF FlattenedVerifyOk(jwsAccess, sender.verificationCertificate)
  THEN NoError ELSE ErrAccessLog

\* sharedLog.recipients.toString() === metaRecipients.toString()
RecipientsEqual(sharedRecipients, metaRecipients) ==
  ArrayToString(sharedRecipients) = ArrayToString(metaRecipients)

\* a membership test that looks at the first recipient only
ReceiverIsFirstRecipient(sharedRecipients, receiverId) ==
  Len(sharedRecipients) > 0 /\ sharedRecipients[1] = receiverId

\* a membership test that takes an empty list for "everyone"
ReceiverIsRecipientOrNoneNamed(sharedRecipients, receiverId) ==
  sharedRecipients = <<>> \/ Includes(sharedRecipients, receiverId)

\* sharedLog.recipients.includes(receiver.id)
ReceiverIsRecipient(sharedRecipients, receiverId) == Includes(sharedRecipients, receiverId)

\* an owner test that passes a header without an owner
OwnersEqualOrAbsent(logOwner, header) ==
  "owner" \notin DOMAIN header \/ header.owner = logOwner

\* accessLog.owner === metaOwner, metaOwner being protectedHeader.owner
OwnersEqual(logOwner, header) == "owner" \in DOMAIN header /\ header.owner = logOwner

\* a sharer test that lets the monitor share and nobody else
MonitorOnlySharer(sl, al) == sl.creator = al.monitor

\* a sharer test that accepts every creator the resolver knows
AnySharerAuthorised(sl, al) == FetchUserKnows(sl.creator) \/ sl.creator = al.owner

\* sharedLog.creator === accessLog.monitor || sharedLog.creator === accessLog.owner
SharerAuthorised(sl, al) == sl.creator = al.monitor \/ sl.creator = al.owner

\* a monitor restriction that tests the first recipient and not the length
MonitorShareFirstOnly(sl, al) ==
  sl.creator = al.monitor => (Len(sl.recipients) >= 1 /\ sl.recipients[1] = al.owner)

\* a monitor shares with the owner only
MonitorShareOk(sl, al) ==
  sl.creator = al.monitor => (Len(sl.recipients) = 1 /\ sl.recipients[1] = al.owner)

\* a return that builds the SignedLog anew from the payload of the log and
\* leaves its signature behind
ReturnedWithoutSignature(sl) ==
  SignedLog([payload |-> sl.log.payload, protected |-> sl.log.protected,
             signature |-> Undefined])

\* return new SignedLog(jwsAccessLog), jwsAccessLog being sharedLog.log
ReturnedSignedLog(sl) == SignedLog(sl.log)

\* the cross-layer checks with the owner test moved before the recipient tests
CrossLayerErrorOwnerFirst(dr, sl, al, rcv) ==
  IF "protectedHeader" \notin DOMAIN dr THEN ErrMissingHeader
  ELSE IF ~OwnersEqual(al.owner, dr.protectedHeader) THEN ErrOwner
  ELSE IF "recipients" \notin DOMAIN dr.protectedHeader THEN ErrTypeError
  ELSE IF ~RecipientsEqual(sl.recipients, dr.protectedHeader.recipients) THEN ErrRecipients
  ELSE IF ~ReceiverIsRecipient(sl.recipients, rcv.id) THEN ErrNotRecipient
  ELSE IF ~SharerAuthorised(sl, al) THEN ErrSharer
  ELSE IF ~MonitorShareOk(sl, al) THEN ErrMonitorShare
  ELSE NoError

\* the checks that follow the two verifications: "" or the error thrown
CrossLayerError(dr, sl, al, rcv) ==
  IF "protectedHeader" \notin DOMAIN dr THEN ErrMissingHeader
  ELSE IF "recipients" \notin DOMAIN dr.protectedHeader THEN ErrTypeError
  ELSE IF ~RecipientsEqual(sl.recipients, dr.protectedHeader.recipients) THEN ErrRecipients
  ELSE IF ~ReceiverIsRecipient(sl.recipients, rcv.id) THEN ErrNotRecipient
  ELSE IF ~OwnersEqual(al.owner, dr.protectedHeader) THEN ErrOwner
  ELSE IF ~SharerAuthorised(sl, al) THEN ErrSharer
  ELSE IF ~MonitorShareOk(sl, al) THEN ErrMonitorShare
  ELSE NoError


\* what a decrypt call hands to its caller: a SignedLog or the error thrown
Outcome(signedLog, message) == [result |-> signedLog, error |-> message]

\* DecryptionService.decrypt run from its first line to its last with nothing
\* else running: the outcome for a token and a receiver
DecryptOutcome(token, rcv) ==
  IF ~ParsesAsJson(token) THEN Outcome(Undefined, ErrSyntax)
  ELSE LET obj == Normalise(token) IN
  IF ~GeneralDecryptOk(obj, rcv.decryptionKey) THEN Outcome(Undefined, ErrDecryptionFailed)
  ELSE LET dr == GeneralDecryptResult(obj) IN
  IF ~ParsesAsJson(TextDecode(dr.plaintext)) THEN Outcome(Undefined, ErrSyntax)
  ELSE LET jws == FromJson(TextDecode(dr.plaintext)) IN
  IF ~FetchUserKnows(ClaimedCreator(jws)) THEN Outcome(Undefined, ErrUnknownUser)
  ELSE LET crt == FetchUser(ClaimedCreator(jws)) IN
  IF VerifySharedLogError(jws, crt) # NoError
  THEN Outcome(Undefined, VerifySharedLogError(jws, crt))
  ELSE LET sl == FromBytes(FlattenedVerifyPayload(jws)) IN
  IF ~FetchUserKnows(ClaimedMonitor(sl.log)) THEN Outcome(Undefined, ErrUnknownUser)
  ELSE LET mon == FetchUser(ClaimedMonitor(sl.log)) IN
  IF VerifyAccessLogError(sl.log, mon) # NoError
  THEN Outcome(Undefined, VerifyAccessLogError(sl.log, mon))
  ELSE LET al == FromBytes(FlattenedVerifyPayload(sl.log)) IN
  IF CrossLayerError(dr, sl, al, rcv) # NoError
  THEN Outcome(Undefined, CrossLayerError(dr, sl, al, rcv))
  ELSE Outcome(ReturnedSignedLog(sl), NoError)


\* ----------------------------------------------------------------- inputs
SeqsUpTo(S, n) == UNION {[1..k -> S] : k \in 0..n}

\* the recipient lists of the model
RecipientLists == SeqsUpTo(UserIds, MaxRecipients)

\* tokens made by the library: a user signs a log naming itself as monitor, any
\* user then shares it with any non-empty list of users
HonestTokens ==
  {Encrypt(SignAccessLog(AccessLog(m, o, body), m), sender, R) :
     m \in UserIds, o \in UserIds, body \in LogBodies, sender \in UserIds,
     R \in RecipientLists \ {<<>>}}

\* tokens whose inner signatures and claimed parties are arbitrary; the header
\* and the wrapped keys agree with the SharedLog; both serialisations
ForgedInnerTokens ==
  UNION {
    LET jwsAccess == SignJws(ToJson(AccessLog(m, o, DefaultBody)), logSigner)
        jwsShared == SignJws(ToJson(SharedLog(jwsAccess, c, o, R)), sharedSigner)
    IN  {JweGeneral(SharedHeader(o, R), R, jwsShared)}
        \cup (IF Len(R) = 1
              THEN {JweFlattened(SharedHeader(o, R), R[1], jwsShared)} ELSE {}) :
    m \in UserIds \cup {IdZ}, o \in {IdA, IdB}, logSigner \in {IdA, IdB},
    c \in UserIds \cup {IdZ}, sharedSigner \in {IdA, IdB}, R \in RecipientLists}

\* the protected headers of the model: owner and recipients each present or not
ProtectedHeaders ==
  {[enc |-> "A256GCM"]}
  \cup {[enc |-> "A256GCM", owner |-> o] : o \in {IdA, IdB}}
  \cup {[enc |-> "A256GCM", recipients |-> R] : R \in RecipientLists}
  \cup {SharedHeader(o, R) : o \in {IdA, IdB}, R \in RecipientLists}

\* tokens whose inner logs are signed by the parties they name, under an
\* arbitrary protected header (or none), with a wrapped key for every user;
\* the SharedLog lists the two users with one-letter ids
ForgedHeaderTokens ==
  UNION {
    LET jwsAccess == SignJws(ToJson(AccessLog(m, o, DefaultBody)), m)
        jwsShared == SignJws(ToJson(SharedLog(jwsAccess, c, o, R)), c)
    IN  {JweGeneral(h, <<IdA, IdB, IdAB>>, jwsShared) : h \in ProtectedHeaders}
        \cup {JweUnprotected(<<IdA, IdB, IdAB>>, jwsShared)} :
    m \in Monitors, o \in {IdA, IdB}, c \in UserIds,
    R \in SeqsUpTo({IdA, IdB}, MaxRecipients)}

\* the orders of a list
Reorderings(R) ==
  {[i \in 1..Len(R) |-> R[f[i]]] :
     f \in {g \in [1..Len(R) -> 1..Len(R)] : \A i, j \in 1..Len(R) : i # j => g[i] # g[j]}}

\* lists of two or more distinct recipient ids, the id "a,a" among them
DistinctRecipientLists ==
  {R \in SeqsUpTo({IdA, IdB, IdAA}, MaxRecipients) :
     /\ Len(R) >= 2
     /\ \A i, j \in 1..Len(R) : i # j => R[i] # R[j]}

\* tokens of an owner that shares its log with two or more distinct
\* recipients, sealed under a protected header that lists the recipients in
\* another order; the SharedLog is the one signed for the original order
PermutedHeaderTokens ==
  UNION {
    LET jwsAccess == SignJws(ToJson(AccessLog(IdA, o, DefaultBody)), IdA)
        jwsShared == SignJws(ToJson(SharedLog(jwsAccess, o, o, R)), o)
    IN  {JweGeneral(SharedHeader(o, P), R, jwsShared) : P \in Reorderings(R) \ {R}} :
    o \in {IdA, IdB}, R \in DistinctRecipientLists}

\* tokens in the general form of go-jose: an owner shares its log, the entries
\* of the recipients array are wrapped for the recipients and the top-level
\* encrypted_key for any user
TopLevelKeyTokens ==
  UNION {
    LET jwsAccess == SignJws(ToJson(AccessLog(IdA, o, DefaultBody)), IdA)
        jwsShared == SignJws(ToJson(SharedLog(jwsAccess, o, o, R)), o)
    IN  {JweGeneralWithTopLevel(SharedHeader(o, R), R, t, jwsShared) : t \in UserIds} :
    o \in {IdA, IdB}, R \in RecipientLists \ {<<>>}}

\* tokens that may fail at several steps of decrypt at once: the monitor and
\* the creator known or not, each signature by the claimed party or not, the
\* protected header absent, bare, with the recipients of the SharedLog or with
\* other ones, with the owner of the log or another one, a wrapped key for
\* every user or for the first only
MultiFaultTokens ==
  UNION {
    LET jwsAccess == SignJws(ToJson(AccessLog(m, IdB, DefaultBody)), logSigner)
        jwsShared == SignJws(ToJson(SharedLog(jwsAccess, c, IdB, R)), sharedSigner)
    IN  {JweGeneral(h, K, jwsShared) :
           h \in {[enc |-> "A256GCM"], SharedHeader(IdB, R), SharedHeader(IdA, R),
                  SharedHeader(IdA, <<IdB, IdA>>)}}
        \cup {JweUnprotected(K, jwsShared)} :
    m \in {IdA, IdB, IdZ}, logSigner \in {IdA, IdB}, c \in {IdA, IdB, IdZ},
    sharedSigner \in {IdA, IdB}, R \in {<<IdA>>, <<IdB>>, <<IdA, IdB>>},
    K \in {<<IdA, IdB, IdAB>>, <<IdA>>}}

\* tokens whose text, or the text of whose plaintext, is cut short
TruncatedTokens ==
  LET whole == {t \in MultiFaultTokens :
                  LET jwsShared == FromJson(TextDecode(Open(t.ciphertext)))
                  IN  jwsShared.signature.signedWith = IdA}
  IN  {Truncate(t) : t \in whole} \cup {WithTruncatedPlaintext(t) : t \in whole}

TokenInputs ==
  HonestTokens \cup ForgedInnerTokens \cup ForgedHeaderTokens
  \cup PermutedHeaderTokens \cup TopLevelKeyTokens \cup MultiFaultTokens
  \cup TruncatedTokens

\* ------------------------------------------------------------------ state
VARIABLES
  jwe,              \* the token handed to decrypt (the JSON text)
  receiver,         \* the AuthenticatedUser that decrypts
  pc,               \* where the decrypt call stands
  jweObj,           \* the parsed, normalised JWE
  decryptionResult, \* what generalDecrypt returned
  jwsSharedLog,     \* the parsed plaintext
  creator,          \* the RemoteUser resolved for the claimed creator
  sharedLog,        \* the verified SharedLog
  monitor,          \* the RemoteUser resolved for the claimed monitor
  accessLog,        \* the verified AccessLog
  result,           \* the SignedLog returned
  error,            \* the message of the error thrown
  shares,           \* the shares of a decrypted SignedLog so far
  events,           \* the awaited operations of the call so far, in order
  tampered          \* the field of the token that was changed, if any

vars == <<jwe, receiver, pc, jweObj, decryptionResult, jwsSharedLog, creator,
          sharedLog, monitor, accessLog, result, error, shares, events, tampered>>

NoLocals ==
  /\ jweObj = Undefined
  /\ decryptionResult = Undefined
  /\ jwsSharedLog = Undefined
  /\ creator = Undefined
  /\ sharedLog = Undefined
  /\ monitor = Undefined
  /\ accessLog = Undefined
  /\ result = Undefined
  /\ error = NoError

\* no field of the token was changed
NoTamper == [field |-> "", entry |-> 0]

\* an awaited operation and its argument (a user id, or nothing)
Event(operation, argument) == [operation |-> operation, argument |-> argument]

Init ==
  /\ jwe \in TokenInputs
  /\ receiver \in {AuthenticatedUser(u) : u \in UserIds}
  /\ pc = "parse"
  /\ NoLocals
  /\ shares = <<>>
  /\ events = <<>>
  /\ tampered = NoTamper

\* throw: the call ends with an error and returns nothing
Throw(message) ==
  /\ pc' = "thrown"
  /\ error' = message

\* lines 34-50: JSON.parse and the single-recipient normalisation
ParseJwe ==
  /\ pc = "parse"
  /\ IF ParsesAsJson(jwe)
     THEN /\ jweObj' = Normalise(jwe)
          /\ pc' = "generalDecrypt"
          /\ UNCHANGED error
     ELSE /\ Throw(ErrSyntax)
          /\ UNCHANGED jweObj
  /\ UNCHANGED <<jwe, receiver, decryptionResult, jwsSharedLog, creator, sharedLog,
                 monitor, accessLog, result, shares, events, tampered>>

\* lines 52-56: generalDecrypt, decode and parse the plaintext
GeneralDecrypt ==
  /\ pc = "generalDecrypt"
  /\ events' = Append(events, Event("generalDecrypt", <<>>))
  /\ IF ~GeneralDecryptOk(jweObj, receiver.decryptionKey)
     THEN /\ Throw(ErrDecryptionFailed)
          /\ UNCHANGED <<decryptionResult, jwsSharedLog>>
     ELSE IF ~ParsesAsJson(TextDecode(GeneralDecryptResult(jweObj).plaintext))
     THEN /\ decryptionResult' = GeneralDecryptResult(jweObj)
          /\ Throw(ErrSyntax)
          /\ UNCHANGED jwsSharedLog
     ELSE /\ decryptionResult' = GeneralDecryptResult(jweObj)
          /\ jwsSharedLog' = FromJson(TextDecode(GeneralDecryptResult(jweObj).plaintext))
          /\ pc' = "fetchCreator"
          /\ UNCHANGED error
  /\ UNCHANGED <<jwe, receiver, jweObj, creator, sharedLog, monitor, accessLog,
                 result, shares, tampered>>

\* a creator lookup that asks the resolver once more when it fails
FetchCreatorWithRetry ==
  /\ pc = "fetchCreator"
  /\ events' = Append(events, Event("fetchUser", ClaimedCreator(jwsSharedLog)))
  /\ IF FetchUserKnows(ClaimedCreator(jwsSharedLog))
     THEN /\ creator' = FetchUser(ClaimedCreator(jwsSharedLog))
          /\ pc' = "verifySharedLog"
          /\ UNCHANGED error
     ELSE IF Len(events) < 2
     THEN UNCHANGED <<pc, error, creator>>
     ELSE /\ Throw(ErrUnknownUser)
          /\ UNCHANGED creator
  /\ UNCHANGED <<jwe, receiver, jweObj, decryptionResult, jwsSharedLog, sharedLog,
                 monitor, accessLog, result, shares, tampered>>

\* line 60: fetchUser(_claimedCreator(jwsSharedLog))
FetchCreator ==
  /\ pc = "fetchCreator"
  /\ events' = Append(events, Event("fetchUser", ClaimedCreator(jwsSharedLog)))
  /\ IF FetchUserKnows(ClaimedCreator(jwsSharedLog))
     THEN /\ creator' = FetchUser(ClaimedCreator(jwsSharedLog))
          /\ pc' = "verifySharedLog"
          /\ UNCHANGED error
     ELSE /\ Throw(ErrUnknownUser)
          /\ UNCHANGED creator
  /\ UNCHANGED <<jwe, receiver, jweObj, decryptionResult, jwsSharedLog, sharedLog,
                 monitor, accessLog, result, shares, tampered>>

\* a SharedLog verification that, when it fails, goes back to the creator
\* lookup and tries again, giving up after the fifth awaited operation
VerifySharedLogWithRetry ==
  /\ pc = "verifySharedLog"
  /\ events' = Append(events, Event("verifySharedLog", <<>>))
  /\ IF VerifySharedLogError(jwsSharedLog, creator) = NoError
     THEN /\ sharedLog' = FromBytes(FlattenedVerifyPayload(jwsSharedLog))
          /\ pc' = "fetchMonitor"
          /\ UNCHANGED error
     ELSE IF Len(events) < 4
     THEN /\ pc' = "fetchCreator"
          /\ UNCHANGED <<error, sharedLog>>
     ELSE /\ Throw(VerifySharedLogError(jwsSharedLog, creator))
          /\ UNCHANGED sharedLog
  /\ UNCHANGED <<jwe, receiver, jweObj, decryptionResult, jwsSharedLog, creator,
                 monitor, accessLog, result, shares, tampered>>

\* line 61: _verifySharedLog(jwsSharedLog, creator)
VerifySharedLog ==
  /\ pc = "verifySharedLog"
  /\ events' = Append(events, Event("verifySharedLog", <<>>))
  /\ IF VerifySharedLogError(jwsSharedLog, creator) = NoError
     THEN /\ sharedLog' = FromBytes(FlattenedVerifyPayload(jwsSharedLog))
          /\ pc' = "fetchMonitor"
          /\ UNCHANGED error
     ELSE /\ Throw(VerifySharedLogError(jwsSharedLog, creator))
          /\ UNCHANGED sharedLog
  /\ UNCHANGED <<jwe, receiver, jweObj, decryptionResult, jwsSharedLog, creator,
                 monitor, accessLog, result, shares, tampered>>

\* a monitor lookup issued beside the SharedLog verification, with the monitor
\* id read from the payload that is not verified yet
FetchMonitorUnverified ==
  /\ pc = "verifySharedLog"
  /\ monitor = Undefined
  /\ LET id == ClaimedMonitor(FromJson(Base64Decode(jwsSharedLog.payload)).log)
     IN  /\ FetchUserKnows(id)
         /\ monitor' = FetchUser(id)
         /\ events' = Append(events, Event("fetchUser", id))
  /\ UNCHANGED <<jwe, receiver, pc, jweObj, decryptionResult, jwsSharedLog, creator,
                 sharedLog, accessLog, result, error, shares, tampered>>

\* lines 65-66: fetchUser(_claimedMonitor(sharedLog.log))
FetchMonitor ==
  /\ pc = "fetchMonitor"
  /\ events' = Append(events, Event("fetchUser", ClaimedMonitor(sharedLog.log)))
  /\ IF FetchUserKnows(ClaimedMonitor(sharedLog.log))
     THEN /\ monitor' = FetchUser(ClaimedMonitor(sharedLog.log))
          /\ pc' = "verifyAccessLog"
          /\ UNCHANGED error
     ELSE /\ Throw(ErrUnknownUser)
          /\ UNCHANGED monitor
  /\ UNCHANGED <<jwe, receiver, jweObj, decryptionResult, jwsSharedLog, creator,
                 sharedLog, accessLog, result, shares, tampered>>

\* line 67: _verifyAccessLog(jwsAccessLog, monitor)
VerifyAccessLog ==
  /\ pc = "verifyAccessLog"
  /\ events' = Append(events, Event("verifyAccessLog", <<>>))
  /\ IF VerifyAccessLogError(sharedLog.log, monitor) = NoError
     THEN /\ accessLog' = FromBytes(FlattenedVerifyPayload(sharedLog.log))
          /\ pc' = "crossLayerChecks"
          /\ UNCHANGED error
     ELSE /\ Throw(VerifyAccessLogError(sharedLog.log, monitor))
          /\ UNCHANGED accessLog
  /\ UNCHANGED <<jwe, receiver, jweObj, decryptionResult, jwsSharedLog, creator,
                 sharedLog, monitor, result, shares, tampered>>

\* lines 69-103: the cross-layer checks and the return
CrossLayerChecks ==
  /\ pc = "crossLayerChecks"
  /\ IF CrossLayerError(decryptionResult, sharedLog, accessLog, receiver) = NoError
     THEN /\ result' = ReturnedSignedLog(sharedLog)
          /\ pc' = "returned"
          /\ UNCHANGED error
     ELSE /\ Throw(CrossLayerError(decryptionResult, sharedLog, accessLog, receiver))
          /\ UNCHANGED result
  /\ UNCHANGED <<jwe, receiver, jweObj, decryptionResult, jwsSharedLog, creator,
                 sharedLog, monitor, accessLog, shares, events, tampered>>

\* the user that decrypted a log encrypts the SignedLog it got for a non-empty
\* list of known users, and one of the known users decrypts the new token
Share ==
  /\ pc = "returned"
  /\ Len(shares) < MaxShares
  /\ tampered = NoTamper
  /\ \E R2 \in RecipientLists \ {<<>>}, next \in UserIds :
       /\ jwe' = Encrypt(result, receiver.id, R2)
       /\ receiver' = AuthenticatedUser(next)
       /\ shares' = Append(shares, [sender |-> receiver.id, receivers |-> R2,
                                    deliveredBy |-> sharedLog.creator])
  /\ pc' = "parse"
  /\ jweObj' = Undefined
  /\ decryptionResult' = Undefined
  /\ jwsSharedLog' = Undefined
  /\ creator' = Undefined
  /\ sharedLog' = Undefined
  /\ monitor' = Undefined
  /\ accessLog' = Undefined
  /\ result' = Undefined
  /\ error' = NoError
  /\ events' = <<>>
  /\ UNCHANGED tampered

\* a changed value of a field: any value but the one it had
Flip(value) == [flipped |-> TRUE] @@ value

Reverse(list) == [i \in 1..Len(list) |-> list[Len(list) + 1 - i]]

\* protected headers that differ from the given one: the recipients in reverse
\* order, another owner, no recipients
TamperedHeaders(header) ==
  ((IF "recipients" \in DOMAIN header
    THEN {[header EXCEPT !.recipients = Reverse(@)],
          [k \in DOMAIN header \ {"recipients"} |-> header[k]]}
    ELSE {})
   \cup (IF "owner" \in DOMAIN header
         THEN {[header EXCEPT !.owner = IF @ = IdA THEN IdB ELSE IdA]}
         ELSE {}))
  \ {header}

\* the tokens that differ from the given one in one field, with the field
TamperedTokens(token) ==
  {<<[field |-> f, entry |-> 0], [token EXCEPT ![f] = Flip(@)]>> :
     f \in {"ciphertext", "tag", "iv"}}
  \cup (IF "protected" \in DOMAIN token
        THEN {<<[field |-> "protected", entry |-> 0], [token EXCEPT !.protected = h]>> :
                h \in TamperedHeaders(token.protected)}
        ELSE {})
  \cup (IF "encrypted_key" \in DOMAIN token
        THEN {<<[field |-> "encrypted_key", entry |-> 0],
                [token EXCEPT !.encrypted_key = Flip(@)]>>}
        ELSE {})
  \cup (IF "recipients" \in DOMAIN token
        THEN {<<[field |-> "encrypted_key", entry |-> i],
                [token EXCEPT !.recipients[i].encrypted_key = Flip(@)]>> :
                i \in 1..Len(token.recipients)}
        ELSE {})

\* a token that the receiver decrypted is changed in one field on its way, and
\* the same receiver decrypts the changed token
Tamper ==
  /\ pc = "returned"
  /\ shares = <<>>
  /\ tampered = NoTamper
  /\ \E change \in TamperedTokens(jwe) :
       /\ tampered' = change[1]
       /\ jwe' = change[2]
  /\ pc' = "parse"
  /\ jweObj' = Undefined
  /\ decryptionResult' = Undefined
  /\ jwsSharedLog' = Undefined
  /\ creator' = Undefined
  /\ sharedLog' = Undefined
  /\ monitor' = Undefined
  /\ accessLog' = Undefined
  /\ result' = Undefined
  /\ error' = NoError
  /\ events' = <<>>
  /\ UNCHANGED <<receiver, shares>>

Next ==
  \/ ParseJwe
  \/ GeneralDecrypt
  \/ FetchCreator
  \/ VerifySharedLog
  \/ FetchMonitor
  \/ VerifyAccessLog
  \/ CrossLayerChecks
  \/ Share
  \/ Tamper

Spec == Init /\ [][Next]_vars

\* ------------------------------------------------- one call, run to its end
\* the steps of one decrypt call
DecryptStep ==
  \/ ParseJwe
  \/ GeneralDecrypt
  \/ FetchCreator
  \/ VerifySharedLog
  \/ FetchMonitor
  \/ VerifyAccessLog
  \/ CrossLayerChecks

\* the tokens of the call: those that may fail at several steps at once, those
\* cut short, and those for at most one recipient with arbitrary inner
\* signatures and parties
FairTokens ==
  MultiFaultTokens \cup TruncatedTokens
  \cup {t \in ForgedInnerTokens : Len(t.protected.recipients) <= 1}

InitFair ==
  /\ jwe \in FairTokens
  /\ receiver \in {AuthenticatedUser(u) : u \in UserIds}
  /\ pc = "parse"
  /\ NoLocals
  /\ shares = <<>>
  /\ events = <<>>
  /\ tampered = NoTamper

\* One decrypt call on such a token, with the premise that every awaited
\* operation (generalDecrypt, the resolver, flattenedVerify) settles: the
\* continuation of a settled promise is run by the event loop, so a step that
\* stays enabled is taken.
SpecFair == InitFair /\ [][DecryptStep]_vars /\ WF_vars(DecryptStep)


\* ------------------------------------------- several decrypt calls at once
\* Each variable holds, per call, the local of that name: the calls are
\* started together and every step between two awaits is one action of one call.
Calls == 1..NumCalls

\* the tokens of the concurrent calls: a share of the owner with both users, a
\* share of the monitor with the owner, a flattened token whose SharedLog is
\* signed by another user than its creator, a token under a header with
\* another owner, and a token whose plaintext is cut short
ConcurrentTokens ==
  LET jwsAccess == SignAccessLog(AccessLog(IdA, IdB, DefaultBody), IdA).jws
      jwsShared == SignJws(ToJson(SharedLog(jwsAccess, IdB, IdB, <<IdA, IdB>>)), IdB)
      jwsForged == SignJws(ToJson(SharedLog(jwsAccess, IdB, IdB, <<IdA>>)), IdA)
  IN  {Encrypt(SignedLog(jwsAccess), IdB, <<IdA, IdB>>),
       Encrypt(SignedLog(jwsAccess), IdA, <<IdB>>),
       JweFlattened(SharedHeader(IdB, <<IdA>>), IdA, jwsForged),
       JweGeneral(SharedHeader(IdA, <<IdA, IdB>>), <<IdA, IdB>>, jwsShared),
       WithTruncatedPlaintext(Encrypt(SignedLog(jwsAccess), IdB, <<IdA, IdB>>))}

ConcurrentReceivers == {AuthenticatedUser(IdA), AuthenticatedUser(IdB)}

InitConcurrent ==
  /\ jwe \in [Calls -> ConcurrentTokens]
  /\ receiver \in [Calls -> ConcurrentReceivers]
  /\ pc = [i \in Calls |-> "parse"]
  /\ jweObj = [i \in Calls |-> Undefined]
  /\ decryptionResult = [i \in Calls |-> Undefined]
  /\ jwsSharedLog = [i \in Calls |-> Undefined]
  /\ creator = [i \in Calls |-> Undefined]
  /\ sharedLog = [i \in Calls |-> Undefined]
  /\ monitor = [i \in Calls |-> Undefined]
  /\ accessLog = [i \in Calls |-> Undefined]
  /\ result = [i \in Calls |-> Undefined]
  /\ error = [i \in Calls |-> NoError]
  /\ events = [i \in Calls |-> <<>>]
  /\ shares = <<>>
  /\ tampered = NoTamper

\* a decrypt that keeps its receiver where every call writes it: each call
\* works with the receiver of the call started last
ReceiverOfLastCall(i) == receiver[NumCalls]

\* the receiver parameter of call i
ReceiverOf(i) == receiver[i]

ThrowIn(i, message) ==
  /\ pc' = [pc EXCEPT ![i] = "thrown"]
  /\ error' = [error EXCEPT ![i] = message]

\* lines 34-50 in call i
ParseJweIn(i) ==
  /\ pc[i] = "parse"
  /\ IF ParsesAsJson(jwe[i])
     THEN /\ jweObj' = [jweObj EXCEPT ![i] = Normalise(jwe[i])]
          /\ pc' = [pc EXCEPT ![i] = "generalDecrypt"]
          /\ UNCHANGED error
     ELSE /\ ThrowIn(i, ErrSyntax)
          /\ UNCHANGED jweObj
  /\ UNCHANGED <<jwe, receiver, decryptionResult, jwsSharedLog, creator, sharedLog,
                 monitor, accessLog, result, shares, events, tampered>>

\* lines 52-56 in call i
GeneralDecryptIn(i) ==
  /\ pc[i] = "generalDecrypt"
  /\ events' = [events EXCEPT ![i] = Append(@, Event("generalDecrypt", <<>>))]
  /\ IF ~GeneralDecryptOk(jweObj[i], ReceiverOf(i).decryptionKey)
     THEN /\ ThrowIn(i, ErrDecryptionFailed)
          /\ UNCHANGED <<decryptionResult, jwsSharedLog>>
     ELSE IF ~ParsesAsJson(TextDecode(GeneralDecryptResult(jweObj[i]).plaintext))
     THEN /\ decryptionResult' =
               [decryptionResult EXCEPT ![i] = GeneralDecryptResult(jweObj[i])]
          /\ ThrowIn(i, ErrSyntax)
          /\ UNCHANGED jwsSharedLog
     ELSE /\ decryptionResult' =
               [decryptionResult EXCEPT ![i] = GeneralDecryptResult(jweObj[i])]
          /\ jwsSharedLog' =
               [jwsSharedLog EXCEPT
                  ![i] = FromJson(TextDecode(GeneralDecryptResult(jweObj[i]).plaintext))]
          /\ pc' = [pc EXCEPT ![i] = "fetchCreator"]
          /\ UNCHANGED error
  /\ UNCHANGED <<jwe, receiver, jweObj, creator, sharedLog, monitor, accessLog,
                 result, shares, tampered>>

\* line 60 in call i
FetchCreatorIn(i) ==
  /\ pc[i] = "fetchCreator"
  /\ events' = [events EXCEPT
                  ![i] = Append(@, Event("fetchUser", ClaimedCreator(jwsSharedLog[i])))]
  /\ IF FetchUserKnows(ClaimedCreator(jwsSharedLog[i]))
     THEN /\ creator' = [creator EXCEPT ![i] = FetchUser(ClaimedCreator(jwsSharedLog[i]))]
          /\ pc' = [pc EXCEPT ![i] = "verifySharedLog"]
          /\ UNCHANGED error
     ELSE /\ ThrowIn(i, ErrUnknownUser)
          /\ UNCHANGED creator
  /\ UNCHANGED <<jwe, receiver, jweObj, decryptionResult, jwsSharedLog, sharedLog,
                 monitor, accessLog, result, shares, tampered>>

\* line 61 in call i
VerifySharedLogIn(i) ==
  /\ pc[i] = "verifySharedLog"
  /\ events' = [events EXCEPT ![i] = Append(@, Event("verifySharedLog", <<>>))]
  /\ IF VerifySharedLogError(jwsSharedLog[i], creator[i]) = NoError
     THEN /\ sharedLog' =
               [sharedLog EXCEPT ![i] = FromBytes(FlattenedVerifyPayload(jwsSharedLog[i]))]
          /\ pc' = [pc EXCEPT ![i] = "fetchMonitor"]
          /\ UNCHANGED error
     ELSE /\ ThrowIn(i, VerifySharedLogError(jwsSharedLog[i], creator[i]))
          /\ UNCHANGED sharedLog
  /\ UNCHANGED <<jwe, receiver, jweObj, decryptionResult, jwsSharedLog, creator,
                 monitor, accessLog, result, shares, tampered>>

\* lines 65-66 in call i
FetchMonitorIn(i) ==
  /\ pc[i] = "fetchMonitor"
  /\ events' = [events EXCEPT
                  ![i] = Append(@, Event("fetchUser", ClaimedMonitor(sharedLog[i].log)))]
  /\ IF FetchUserKnows(ClaimedMonitor(sharedLog[i].log))
     THEN /\ monitor' = [monitor EXCEPT ![i] = FetchUser(ClaimedMonitor(sharedLog[i].log))]
          /\ pc' = [pc EXCEPT ![i] = "verifyAccessLog"]
          /\ UNCHANGED error
     ELSE /\ ThrowIn(i, ErrUnknownUser)
          /\ UNCHANGED monitor
  /\ UNCHANGED <<jwe, receiver, jweObj, decryptionResult, jwsSharedLog, creator,
                 sharedLog, accessLog, result, shares, tampered>>

\* line 67 in call i
VerifyAccessLogIn(i) ==
  /\ pc[i] = "verifyAccessLog"
  /\ events' = [events EXCEPT ![i] = Append(@, Event("verifyAccessLog", <<>>))]
  /\ IF VerifyAccessLogError(sharedLog[i].log, monitor[i]) = NoError
     THEN /\ accessLog' =
               [accessLog EXCEPT ![i] = FromBytes(FlattenedVerifyPayload(sharedLog[i].log))]
          /\ pc' = [pc EXCEPT ![i] = "crossLayerChecks"]
          /\ UNCHANGED error
     ELSE /\ ThrowIn(i, VerifyAccessLogError(sharedLog[i].log, monitor[i]))
          /\ UNCHANGED accessLog
  /\ UNCHANGED <<jwe, receiver, jweObj, decryptionResult, jwsSharedLog, creator,
                 sharedLog, monitor, result, shares, tampered>>

\* lines 69-103 in call i
CrossLayerChecksIn(i) ==
  /\ pc[i] = "crossLayerChecks"
  /\ IF CrossLayerError(decryptionResult[i], sharedLog[i], accessLog[i],
                        ReceiverOf(i)) = NoError
     THEN /\ result' = [result EXCEPT ![i] = ReturnedSignedLog(sharedLog[i])]
          /\ pc' = [pc EXCEPT ![i] = "returned"]
          /\ UNCHANGED error
     ELSE /\ ThrowIn(i, CrossLayerError(decryptionResult[i], sharedLog[i],
                                        accessLog[i], ReceiverOf(i)))
          /\ UNCHANGED result
  /\ UNCHANGED <<jwe, receiver, jweObj, decryptionResult, jwsSharedLog, creator,
                 sharedLog, monitor, accessLog, shares, events, tampered>>

NextConcurrent ==
  \E i \in Calls :
    \/ ParseJweIn(i)
    \/ GeneralDecryptIn(i)
    \/ FetchCreatorIn(i)
    \/ VerifySharedLogIn(i)
    \/ FetchMonitorIn(i)
    \/ VerifyAccessLogIn(i)
    \/ CrossLayerChecksIn(i)

SpecConcurrent == InitConcurrent /\ [][NextConcurrent]_vars


\* ------------------------------------------------- the token of the call
\* what the token carries, read without any verification
InnerJwsShared == FromJson(TextDecode(Open(jwe.ciphertext)))
InnerSharedLog == FromJson(Base64Decode(InnerJwsShared.payload))
InnerJwsAccess == InnerSharedLog.log
InnerAccessLog == FromJson(Base64Decode(InnerJwsAccess.payload))

\* the text of the token and the text of its plaintext are JSON
Parses == ParsesAsJson(jwe) /\ ParsesAsJson(TextDecode(Open(jwe.ciphertext)))

Returned == pc = "returned"
Thrown == pc = "thrown"
Done == Returned \/ Thrown

\* the token is what encrypt makes of its SignedLog, creator and recipients
MadeByEncrypt ==
  /\ InnerSharedLog.recipients # <<>>
  /\ jwe = Encrypt(SignedLog(InnerJwsAccess), InnerSharedLog.creator,
                   InnerSharedLog.recipients)

\* the AccessLog of the token names a monitor and is signed by it
SignedByItsMonitor ==
  /\ InnerAccessLog.monitor \in Monitors
  /\ SignedLog(InnerJwsAccess) = SignAccessLog(InnerAccessLog, InnerAccessLog.monitor)

\* both signatures were verified and the monitor was authorised in this call
BothVerified == accessLog # Undefined


\* ------------------------------------------------------------------ claims
\* the case of C1: a log signed by its monitor, encrypted by its owner or its
\* monitor for a list that contains the owner, decrypted by one of the list
RoundTripCase ==
  /\ MadeByEncrypt
  /\ SignedByItsMonitor
  /\ InnerSharedLog.creator \in {InnerAccessLog.owner, InnerAccessLog.monitor}
  /\ Includes(InnerSharedLog.recipients, InnerAccessLog.owner)
  /\ Includes(InnerSharedLog.recipients, receiver.id)

\* C1 as stated: every receiver of such a token decrypts it and gets back the
\* AccessLog that was signed, whoever of owner and monitor encrypted it and
\* whatever the list is.
RoundTripAnyList ==
  (Done /\ RoundTripCase) => (Returned /\ Extract(result) = InnerAccessLog)

\* C1, amended: the round trip holds when the sharer is the owner and not the
\* monitor of the log, or when the list is exactly [owner]: then every receiver
\* in the list decrypts the token and extract() of the SignedLog returned is the
\* AccessLog that was signed, id and all other fields.
RoundTrip ==
  (/\ Done
   /\ RoundTripCase
   /\ (InnerSharedLog.creator = InnerAccessLog.monitor
         => InnerSharedLog.recipients = <<InnerAccessLog.owner>>))
  => (Returned /\ Extract(result) = InnerAccessLog
               /\ Extract(result).id = InnerAccessLog.id)

\* an owner's share with two receivers, decrypted by the one that is not the owner
RoundTripWitness ==
  /\ Returned
  /\ RoundTripCase
  /\ Len(InnerSharedLog.recipients) = 2
  /\ receiver.id # InnerAccessLog.owner
  /\ InnerSharedLog.recipients[2] = receiver.id
  /\ Extract(result).id = "id-2"


\* C2: no SignedLog is returned for an AccessLog whose claimed monitor the
\* resolver maps to a user without the isMonitor flag; once the monitor lookup
\* has returned such a user and the AccessLog step has run, the call has thrown
\* UnauthorisedMonitor, whoever signed the AccessLog.
MonitorAuthorisation ==
  /\ Returned => /\ FetchUserKnows(InnerAccessLog.monitor)
                 /\ FetchUser(InnerAccessLog.monitor).isMonitor
  /\ (/\ monitor # Undefined
      /\ pc # "verifyAccessLog"
      /\ ~FetchUser(ClaimedMonitor(InnerJwsAccess)).isMonitor)
     => (Thrown /\ error = ErrUnauthorisedMonitor /\ result = Undefined)

\* a user without the flag signs an AccessLog naming itself and the signature
\* is valid: rejected as unauthorised
MonitorAuthorisationWitness ==
  /\ Thrown
  /\ error = ErrUnauthorisedMonitor
  /\ InnerAccessLog.monitor \notin Monitors
  /\ InnerJwsAccess.signature.signedWith = InnerAccessLog.monitor

\* C3: a SignedLog is returned only if the SharedLog JWS is signed with the key
\* certified by the verification certificate of the user resolved for the
\* creator it claims; once the creator is resolved and the SharedLog step has
\* run on a JWS signed with another key, the call has thrown 'Could not
\* verify SharedLog.'.
SharedLogAuthentic ==
  /\ Returned =>
       /\ FetchUserKnows(InnerSharedLog.creator)
       /\ InnerJwsShared.signature.signedWith
            = FetchUser(InnerSharedLog.creator).verificationCertificate.certifies
  /\ (/\ creator # Undefined
      /\ pc # "verifySharedLog"
      /\ InnerJwsShared.signature.signedWith
           # FetchUser(InnerSharedLog.creator).verificationCertificate.certifies)
     => (Thrown /\ error = ErrSharedLog /\ result = Undefined)

\* the decrypting user signed the SharedLog itself and named the owner as creator
SharedLogAuthenticWitness ==
  /\ Thrown
  /\ error = ErrSharedLog
  /\ InnerJwsShared.signature.signedWith = receiver.id
  /\ InnerSharedLog.creator = InnerAccessLog.owner
  /\ InnerSharedLog.creator # receiver.id

\* C4: a SignedLog is returned only if the AccessLog JWS is signed with the key
\* certified by the verification certificate of the user resolved for the
\* monitor it claims; once a flagged monitor is resolved and the AccessLog step
\* has run on a JWS signed with another key, the call has thrown 'Could not
\* verify AccessLog.'.
AccessLogAuthentic ==
  /\ Returned =>
       /\ FetchUserKnows(InnerAccessLog.monitor)
       /\ InnerJwsAccess.signature.signedWith
            = FetchUser(InnerAccessLog.monitor).verificationCertificate.certifies
  /\ (/\ monitor # Undefined
      /\ pc # "verifyAccessLog"
      /\ FetchUser(InnerAccessLog.monitor).isMonitor
      /\ InnerJwsAccess.signature.signedWith
           # FetchUser(InnerAccessLog.monitor).verificationCertificate.certifies)
     => (Thrown /\ error = ErrAccessLog /\ result = Undefined)

\* the claimed monitor carries the flag, yet another user signed the AccessLog
AccessLogAuthenticWitness ==
  /\ Thrown
  /\ error = ErrAccessLog
  /\ InnerAccessLog.monitor \in Monitors
  /\ InnerJwsAccess.signature.signedWith # InnerAccessLog.monitor
  /\ InnerJwsAccess.signature.signedWith \in UserIds


\* the protected header of the token carries a recipients list
HeaderHasRecipients ==
  "protected" \in DOMAIN jwe /\ "recipients" \in DOMAIN jwe.protected

\* the recipients list of the header is the one of the SharedLog and names the
\* decrypting user
RecipientsAgree ==
  /\ HeaderHasRecipients
  /\ jwe.protected.recipients = InnerSharedLog.recipients
  /\ Includes(InnerSharedLog.recipients, receiver.id)

\* the protected header names the owner of the AccessLog
HeaderOwnerAgrees ==
  /\ "protected" \in DOMAIN jwe
  /\ "owner" \in DOMAIN jwe.protected
  /\ jwe.protected.owner = InnerAccessLog.owner

\* C5: in every accepted decrypt the creator of the SharedLog is the owner or
\* the monitor of the AccessLog; a call that verified both signatures of a
\* token whose header agrees with the logs, but whose SharedLog was made by
\* another user, has thrown 'Only the owner or the monitor ... allowed to share.'
AuthorisedSharer ==
  /\ Returned =>
       InnerSharedLog.creator \in {InnerAccessLog.owner, InnerAccessLog.monitor}
  /\ (/\ Done
      /\ BothVerified
      /\ RecipientsAgree
      /\ HeaderOwnerAgrees
      /\ InnerSharedLog.creator \notin {InnerAccessLog.owner, InnerAccessLog.monitor})
     => (Thrown /\ error = ErrSharer /\ result = Undefined)

\* a known third user shares a log it neither owns nor monitors, with a valid
\* signature of its own
AuthorisedSharerWitness ==
  /\ Thrown
  /\ error = ErrSharer
  /\ BothVerified
  /\ InnerSharedLog.creator \in UserIds
  /\ InnerJwsShared.signature.signedWith = InnerSharedLog.creator
  /\ InnerAccessLog.owner # InnerAccessLog.monitor

\* the case of C6: the monitor of a log it signed shares it, with a header that
\* agrees with the logs, with a list other than [owner]
MonitorSharesWider ==
  /\ Parses
  /\ SignedByItsMonitor
  /\ InnerSharedLog.creator = InnerAccessLog.monitor
  /\ InnerJwsShared.signature.signedWith = InnerSharedLog.creator
  /\ HeaderHasRecipients
  /\ jwe.protected.recipients = InnerSharedLog.recipients
  /\ HeaderOwnerAgrees
  /\ InnerSharedLog.recipients # <<InnerAccessLog.owner>>

\* the token carries a content key wrapped for the decrypting user
HoldsWrappedKey == GeneralDecryptOk(Normalise(jwe), receiver.decryptionKey)

\* C6 as stated: such a share is rejected with MalformedData whoever decrypts.
MonitorShareMalformedForAll ==
  (Done /\ MonitorSharesWider) => (Thrown /\ error \in MalformedData)

\* C6, amended: in every accepted decrypt whose SharedLog was made by the
\* monitor of the AccessLog, the recipients are exactly [owner]; a share of the
\* monitor with any other list is decrypted by nobody: a party that holds a
\* wrapped key gets MalformedData ('Monitors can only share the data with the
\* owner of the log.' when it is in the list), a party that holds none fails
\* at the JWE decryption.
MonitorRestriction ==
  /\ (Returned /\ InnerSharedLog.creator = InnerAccessLog.monitor)
       => /\ Len(InnerSharedLog.recipients) = 1
          /\ InnerSharedLog.recipients[1] = InnerAccessLog.owner
  /\ (Done /\ MonitorSharesWider)
     => /\ Thrown
        /\ result = Undefined
        /\ HoldsWrappedKey => error \in MalformedData
        /\ (HoldsWrappedKey /\ Includes(InnerSharedLog.recipients, receiver.id))
             => error = ErrMonitorShare
        /\ ~HoldsWrappedKey => error = ErrDecryptionFailed

\* the monitor encrypts for the owner and one more user; the owner decrypts
MonitorRestrictionWitness ==
  /\ Thrown
  /\ error = ErrMonitorShare
  /\ MonitorSharesWider
  /\ receiver.id = InnerAccessLog.owner
  /\ InnerAccessLog.owner # InnerAccessLog.monitor
  /\ Len(InnerSharedLog.recipients) = 2
  /\ InnerSharedLog.recipients[1] = InnerAccessLog.owner

\* C7 as stated: decrypt accepts only if sharedLog.recipients and
\* protectedHeader.recipients are equal as sequences, same length and the same
\* user id at every position.
RecipientsSequenceEqual ==
  Returned => (HeaderHasRecipients
               /\ InnerSharedLog.recipients = jwe.protected.recipients)

OwnerBinding ==
  /\ Returned => (HeaderOwnerAgrees /\ accessLog.owner = jwe.protected.owner)
  /\ (/\ Done
      /\ BothVerified
      /\ RecipientsAgree
      /\ ~HeaderOwnerAgrees)
     => (Thrown /\ error = ErrOwner /\ result = Undefined)

\* the protected header carries no owner at all
OwnerBindingWitness ==
  /\ Thrown
  /\ error = ErrOwner
  /\ "owner" \notin DOMAIN jwe.protected

\* the case of C10: the token is a share by the owner of the log, who had
\* decrypted a token made by the monitor of the log, and the decrypting user is
\* one of the list the owner shared with
OwnerReshareCase ==
  /\ Len(shares) >= 1
  /\ shares[Len(shares)].sender = InnerAccessLog.owner
  /\ shares[Len(shares)].deliveredBy = InnerAccessLog.monitor
  /\ shares[Len(shares)].receivers = InnerSharedLog.recipients
  /\ Includes(shares[Len(shares)].receivers, receiver.id)

\* C10 as stated: every receiver of the owner's share decrypts it, for every
\* owner, monitor and non-empty list of known users.
OwnerReshareAnyOwner == (Done /\ OwnerReshareCase) => Returned

\* C10, amended: every receiver of the owner's share decrypts it and gets the
\* AccessLog back, provided the owner is not also the monitor of the log or the
\* list is exactly [owner].
OwnerReshare ==
  (/\ Done
   /\ OwnerReshareCase
   /\ (InnerAccessLog.owner # InnerAccessLog.monitor
         \/ InnerSharedLog.recipients = <<InnerAccessLog.owner>>))
  => (Returned /\ Extract(result) = InnerAccessLog)

\* the owner shares with two users, itself not among them; the second decrypts
OwnerReshareWitness ==
  /\ Returned
  /\ OwnerReshareCase
  /\ Len(InnerSharedLog.recipients) = 2
  /\ ~Includes(InnerSharedLog.recipients, InnerAccessLog.owner)
  /\ InnerSharedLog.recipients[2] = receiver.id
  /\ InnerSharedLog.recipients[1] # receiver.id

\* the decrypting user can unwrap an entry of the token other than entry i
UnwrapsAnother(i) ==
  \E j \in 1..Len(Normalise(jwe).recipients) :
    j # i /\ Unwraps(Normalise(jwe).recipients[j], receiver.decryptionKey)

\* the changed field is one that the call of the receiver does not read: the
\* top-level encrypted_key of a token with a recipients array, or the
\* encrypted_key of one entry while the receiver unwraps another entry
ChangedUnreadKey ==
  /\ tampered.field = "encrypted_key"
  /\ \/ tampered.entry = 0 /\ "recipients" \in DOMAIN jwe
     \/ tampered.entry > 0 /\ UnwrapsAnother(tampered.entry)

\* C11 as stated: after a change of any one of ciphertext, tag, iv, protected or
\* any encrypted_key of a token the receiver decrypted, its decrypt fails.
TamperEvidentEveryField ==
  (Done /\ tampered # NoTamper) => Thrown

\* C11, amended: after a change of ciphertext, tag, iv or protected, or of an
\* encrypted_key that the receiver's call reads (the top-level one of a
\* flattened token, or the only entry the receiver can unwrap), the receiver's
\* decrypt fails at the JWE decryption and returns nothing; a change of the
\* top-level encrypted_key of a token with a recipients array, or of an entry
\* beside one the receiver unwraps, goes unnoticed and the same log is returned.
TamperEvidence ==
  (Done /\ tampered # NoTamper)
    => IF ChangedUnreadKey
       THEN Returned /\ result = SignedLog(InnerJwsAccess)
       ELSE Thrown /\ error = ErrDecryptionFailed /\ result = Undefined

\* the receiver's own entry of a token for two recipients was changed
TamperEvidenceWitness ==
  /\ Thrown
  /\ error = ErrDecryptionFailed
  /\ tampered.field = "encrypted_key"
  /\ tampered.entry = 1
  /\ Len(jwe.recipients) = 2
  /\ jwe.recipients[2].encrypted_key # WrappedFor(receiver.id)

\* the case of C12: a log signed by its monitor and shared by its owner with
\* two or more distinct recipients, sealed under a protected header that names
\* the owner and lists the same recipients in another order; the decrypting
\* user is one of them and holds a wrapped key
HeaderPermuted ==
  /\ Parses
  /\ AeadOk(jwe)
  /\ SignedByItsMonitor
  /\ InnerSharedLog.creator = InnerAccessLog.owner
  /\ InnerJwsShared.signature.signedWith = InnerSharedLog.creator
  /\ HeaderHasRecipients
  /\ HeaderOwnerAgrees
  /\ Len(InnerSharedLog.recipients) >= 2
  /\ \A i, j \in 1..Len(InnerSharedLog.recipients) :
       i # j => InnerSharedLog.recipients[i] # InnerSharedLog.recipients[j]
  /\ jwe.protected.recipients \in Reorderings(InnerSharedLog.recipients)
  /\ jwe.protected.recipients # InnerSharedLog.recipients
  /\ Includes(InnerSharedLog.recipients, receiver.id)
  /\ HoldsWrappedKey

\* C12 as stated: a valid token for two or more distinct recipients whose
\* protected header lists the recipients in another order than the signed
\* SharedLog is rejected with MalformedData.
PermutedRecipientsMalformed ==
  (Done /\ HeaderPermuted) => (Thrown /\ error \in MalformedData)

\* the token has the flattened shape: no recipients key, encrypted_key and
\* header at the top level
Flattened(token) ==
  /\ "recipients" \notin DOMAIN token
  /\ "encrypted_key" \in DOMAIN token
  /\ "header" \in DOMAIN token

\* the general-form token with the one entry {encrypted_key, header} of a
\* flattened token and its other members
GeneralForm(token) ==
  [recipients |-> <<[encrypted_key |-> token.encrypted_key, header |-> token.header]>>]
    @@ [k \in DOMAIN token \ {"encrypted_key", "header"} |-> token[k]]

\* C13: a finished decrypt of a flattened token has the outcome (the same
\* SignedLog or the same error) that decrypt has for the same receiver on the
\* general-form token with recipients = [{encrypted_key, header}]; the object
\* handed to the JWE decrypter carries exactly that one entry.
SingleRecipientNormalisation ==
  /\ (Done /\ Flattened(jwe))
       => Outcome(result, error) = DecryptOutcome(GeneralForm(jwe), receiver)
  /\ (jweObj # Undefined /\ Flattened(jwe))
       => jweObj.recipients = GeneralForm(jwe).recipients

\* a flattened token is accepted
SingleRecipientNormalisationWitness ==
  /\ Returned
  /\ Flattened(jwe)
  /\ DecryptOutcome(GeneralForm(jwe), receiver).result = result

\* every step of decrypt succeeds on the token of the call, read from the token
\* itself: the JWE decryption, both lookups and signatures, the monitor
\* authorisation and the six cross-layer conditions
EveryStepSucceeds ==
  /\ Parses
  /\ \E i \in 1..Len(Normalise(jwe).recipients) :
       Unwraps(Normalise(jwe).recipients[i], receiver.decryptionKey)
  /\ AeadOk(jwe)
  /\ FetchUserKnows(InnerSharedLog.creator)
  /\ FlattenedVerifyOk(InnerJwsShared,
                       FetchUser(InnerSharedLog.creator).verificationCertificate)
  /\ FetchUserKnows(InnerAccessLog.monitor)
  /\ FetchUser(InnerAccessLog.monitor).isMonitor
  /\ FlattenedVerifyOk(InnerJwsAccess,
                       FetchUser(InnerAccessLog.monitor).verificationCertificate)
  /\ "protected" \in DOMAIN jwe
  /\ HeaderHasRecipients
  /\ ArrayToString(InnerSharedLog.recipients) = ArrayToString(jwe.protected.recipients)
  /\ Includes(InnerSharedLog.recipients, receiver.id)
  /\ "owner" \in DOMAIN jwe.protected
  /\ jwe.protected.owner = InnerAccessLog.owner
  /\ InnerSharedLog.creator \in {InnerAccessLog.monitor, InnerAccessLog.owner}
  /\ InnerSharedLog.creator = InnerAccessLog.monitor
       => InnerSharedLog.recipients = <<InnerAccessLog.owner>>

\* C14: a decrypt call that has not ended has handed nothing to its caller; one
\* that ended has either returned a SignedLog and no error, after the JWE
\* decryption, both signature verifications, the monitor authorisation and all
\* cross-layer checks succeeded, or thrown an error and returned nothing.
NoPartialResult ==
  /\ ~Done => (result = Undefined /\ error = NoError)
  /\ Returned => /\ result # Undefined
                 /\ error = NoError
                 /\ EveryStepSucceeds
                 /\ Len(events) = 5
  /\ Thrown => (result = Undefined /\ error # NoError)

\* a call that verified both signatures and failed a cross-layer check
NoPartialResultWitness ==
  /\ Thrown
  /\ error \in MalformedData
  /\ decryptionResult # Undefined
  /\ sharedLog # Undefined
  /\ accessLog # Undefined
  /\ result = Undefined

\* the locals of call i
Frame(i) ==
  <<jwe[i], receiver[i], pc[i], jweObj[i], decryptionResult[i], jwsSharedLog[i],
    creator[i], sharedLog[i], monitor[i], accessLog[i], result[i], error[i],
    events[i]>>

\* every step changes the locals of one call and of no other
OneCallMoves ==
  \E i \in Calls : \A j \in Calls \ {i} : Frame(j)' = Frame(j)

\* every call that ended has the outcome of its token and receiver run alone
OutcomeAsAlone ==
  \A i \in Calls :
    pc[i] \in {"returned", "thrown"}
      => Outcome(result[i], error[i]) = DecryptOutcome(jwe[i], receiver[i])

\* C15: when several decrypt calls run at once and interleave at their awaits,
\* each call ends with the outcome the same call has when run alone, which
\* depends on its own token and receiver and on the resolver's answers only,
\* and no step of one call changes a local of another call.
Statelessness == []OutcomeAsAlone /\ [][OneCallMoves]_vars

\* two calls on the same token for two receivers, both past their first await,
\* one accepted and the other one rejected
StatelessnessWitness ==
  /\ jwe[1] = jwe[2]
  /\ receiver[1] # receiver[2]
  /\ pc[1] = "returned"
  /\ pc[2] = "thrown"
  /\ error[2] = ErrDecryptionFailed

\* the awaited operations of one decrypt call, in the order of the source
AwaitOrder ==
  <<"generalDecrypt", "fetchUser", "verifySharedLog", "fetchUser", "verifyAccessLog">>

\* C16: the awaited operations of one decrypt call happen in the order JWE
\* decryption, creator lookup, SharedLog verification, monitor lookup, AccessLog
\* verification, each one after the one before it has succeeded; the monitor
\* lookup is made for the monitor named in the log field of the verified
\* SharedLog, and while one lookup is awaited the other one is not.
SequentialOrder ==
  /\ Len(events) <= Len(AwaitOrder)
  /\ \A k \in 1..Len(events) : events[k].operation = AwaitOrder[k]
  /\ Len(events) >= 2 => /\ decryptionResult # Undefined
                         /\ jwsSharedLog # Undefined
                         /\ events[2].argument = ClaimedCreator(jwsSharedLog)
  /\ Len(events) >= 3 => creator # Undefined
  /\ Len(events) >= 4 => /\ sharedLog # Undefined
                         /\ FlattenedVerifyOk(InnerJwsShared, creator.verificationCertificate)
                         /\ events[4].argument = ClaimedMonitor(sharedLog.log)
  /\ Len(events) >= 5 => monitor # Undefined
  /\ pc = "fetchCreator" => (Len(events) = 1 /\ monitor = Undefined)
  /\ pc = "fetchMonitor" => (Len(events) = 3 /\ creator # Undefined)
  /\ monitor # Undefined => sharedLog # Undefined

\* an accepted call that looked up two different users, the creator first
SequentialOrderWitness ==
  /\ Returned
  /\ Len(events) = 5
  /\ events[2].argument = InnerSharedLog.creator
  /\ events[4].argument = InnerAccessLog.monitor
  /\ events[2].argument # events[4].argument

\* the steps of decrypt in the order of C17: 1 parse, 2 JWE decryption,
\* 3 parse of the plaintext, 4 creator lookup, 5 SharedLog signature, 6 monitor
\* lookup, 7 monitor authorisation, 8 AccessLog signature, 9 protected header
\* present, 10 recipients equal, 11 receiver in recipients, 12 owner equal,
\* 13 creator is owner or monitor, 14 monitor shares with the owner only
Steps == 1..14

\* step k fails on the token of the call, read from the token itself
StepFails(k) ==
  CASE k = 1 -> ~ParsesAsJson(jwe)
    [] k = 2 -> ~(AeadOk(jwe)
                  /\ \E i \in 1..Len(Normalise(jwe).recipients) :
                       Unwraps(Normalise(jwe).recipients[i], receiver.decryptionKey))
    [] k = 3 -> ~ParsesAsJson(TextDecode(Open(jwe.ciphertext)))
    [] k = 4 -> ~FetchUserKnows(InnerSharedLog.creator)
    [] k = 5 -> InnerJwsShared.signature.signedWith # InnerSharedLog.creator
    [] k = 6 -> ~FetchUserKnows(InnerAccessLog.monitor)
    [] k = 7 -> InnerAccessLog.monitor \notin Monitors
    [] k = 8 -> InnerJwsAccess.signature.signedWith # InnerAccessLog.monitor
    [] k = 9 -> "protected" \notin DOMAIN jwe
    [] k = 10 -> \/ ~HeaderHasRecipients
                 \/ ArrayToString(InnerSharedLog.recipients)
                      # ArrayToString(jwe.protected.recipients)
    [] k = 11 -> ~Includes(InnerSharedLog.recipients, receiver.id)
    [] k = 12 -> \/ "protected" \notin DOMAIN jwe
                 \/ "owner" \notin DOMAIN jwe.protected
                 \/ jwe.protected.owner # InnerAccessLog.owner
    [] k = 13 -> InnerSharedLog.creator \notin {InnerAccessLog.monitor, InnerAccessLog.owner}
    [] k = 14 -> /\ InnerSharedLog.creator = InnerAccessLog.monitor
                 /\ InnerSharedLog.recipients # <<InnerAccessLog.owner>>

\* the error thrown at step k; at step 10 a header without a recipients field
\* makes the comparison itself throw
StepError(k) ==
  CASE k \in {1, 3} -> ErrSyntax
    [] k = 2 -> ErrDecryptionFailed
    [] k \in {4, 6} -> ErrUnknownUser
    [] k = 5 -> ErrSharedLog
    [] k = 7 -> ErrUnauthorisedMonitor
    [] k = 8 -> ErrAccessLog
    [] k = 9 -> ErrMissingHeader
    [] k = 10 -> IF HeaderHasRecipients THEN ErrRecipients ELSE ErrTypeError
    [] k = 11 -> ErrNotRecipient
    [] k = 12 -> ErrOwner
    [] k = 13 -> ErrSharer
    [] k = 14 -> ErrMonitorShare

\* the awaited operations that were started when step k throws
AwaitsBefore(k) ==
  CASE k = 1 -> 0
    [] k \in {2, 3} -> 1
    [] k = 4 -> 2
    [] k = 5 -> 3
    [] k = 6 -> 4
    [] k \in 7..14 -> 5

FailingSteps == {k \in Steps : StepFails(k)}

EarliestFailingStep == CHOOSE k \in FailingSteps : \A l \in FailingSteps : k <= l

\* C17: a decrypt call that ended returned if no step fails on its token, and
\* has otherwise thrown the error of the earliest failing step in the order
\* parse, JWE decryption, parse of the plaintext, creator lookup, SharedLog
\* signature, monitor lookup, monitor authorisation, AccessLog signature,
\* header present, recipients equal, receiver in recipients, owner equal,
\* creator is owner or monitor, monitor shares with the owner only, at that
\* step; no 'Malformed data:' error is thrown before both signatures are verified.
ErrorPrecedence ==
  /\ Done => IF FailingSteps = {}
             THEN Returned
             ELSE /\ Thrown
                  /\ error = StepError(EarliestFailingStep)
                  /\ Len(events) = AwaitsBefore(EarliestFailingStep)
  /\ error \in MalformedData => (sharedLog # Undefined /\ accessLog # Undefined)

\* a token whose two signatures are forged and that has no protected header is
\* rejected for its SharedLog signature
ErrorPrecedenceWitness ==
  /\ Thrown
  /\ error = ErrSharedLog
  /\ {5, 8, 9} \subseteq FailingSteps

\* C18 as stated: a decrypt call that verified both signatures and then fails
\* is rejected with one of the six 'Malformed data:' errors, whatever the
\* authenticated protected header carries, a header without a recipients field
\* or without an owner field included.
CrossLayerFailuresMalformed ==
  (Thrown /\ BothVerified) => error \in MalformedData

\* C19: the SignedLog that decrypt returns wraps the JWS in the log field of
\* the SharedLog whose signature was verified against the creator; that JWS is
\* the one whose signature was verified against the authorised monitor, and
\* extract() on the SignedLog gives the AccessLog whose monitor and owner went
\* into the cross-layer checks, not a value of the protected header or of any
\* unverified part of the token.
ReturnedLogIsVerifiedLog ==
  Returned =>
    /\ result = SignedLog(sharedLog.log)
    /\ sharedLog = FromJson(Base64Decode(jwsSharedLog.payload))
    /\ FlattenedVerifyOk(jwsSharedLog, creator.verificationCertificate)
    /\ creator.id = sharedLog.creator
    /\ FlattenedVerifyOk(result.jws, monitor.verificationCertificate)
    /\ monitor.isMonitor
    /\ Extract(result) = accessLog
    /\ monitor.id = Extract(result).monitor
    /\ Extract(result).owner = decryptionResult.protectedHeader.owner
    /\ sharedLog.creator \in {Extract(result).monitor, Extract(result).owner}
    /\ result.jws = InnerJwsAccess

\* a log shared by its owner with two users is returned to the second one
ReturnedLogIsVerifiedLogWitness ==
  /\ Returned
  /\ Extract(result) = accessLog
  /\ result.jws.signature.signedWith = monitor.id
  /\ sharedLog.creator = accessLog.owner
  /\ accessLog.owner # accessLog.monitor
  /\ Len(sharedLog.recipients) = 2
  /\ receiver.id = sharedLog.recipients[2]

\* C20: for a token that has a recipients key, a top-level encrypted_key or
\* header beside it or not, the object handed to the JWE decrypter is the
\* parsed token with its own recipients array, and the JWE decryption succeeds
\* exactly if the receiver unwraps one of those entries and the tag holds, the
\* top-level encrypted_key playing no part; the single entry
\* {encrypted_key, header} is made only for a token without a recipients key.
NormalisationFrame ==
  /\ (jweObj # Undefined /\ "recipients" \in DOMAIN jwe) => jweObj = jwe
  /\ (jweObj # Undefined /\ "recipients" \notin DOMAIN jwe)
       => jweObj.recipients = <<[encrypted_key |-> Get(jwe, "encrypted_key"),
                                 header |-> Get(jwe, "header")]>>
  /\ (Len(events) >= 1 /\ "recipients" \in DOMAIN jwe)
       => (decryptionResult # Undefined
             <=> /\ AeadOk(jwe)
                 /\ \E i \in 1..Len(jwe.recipients) :
                      Unwraps(jwe.recipients[i], receiver.decryptionKey))

\* a token with a recipients array without an entry for the receiver and with
\* a top-level encrypted_key wrapped for the receiver is not decrypted
NormalisationFrameWitness ==
  /\ Thrown
  /\ error = ErrDecryptionFailed
  /\ tampered = NoTamper
  /\ "recipients" \in DOMAIN jwe
  /\ "encrypted_key" \in DOMAIN jwe
  /\ jwe.encrypted_key = WrappedFor(receiver.id)
  /\ jweObj.recipients = jwe.recipients

\* the resolver calls of the decrypt call so far, in order
ResolverCalls == SelectSeq(events, LAMBDA e : e.operation = "fetchUser")

\* the call was ended by the resolver: the last awaited operation is the
\* lookup of an id the resolver does not know, and what that lookup would have
\* been followed by was not done
EndedByResolver ==
  /\ Thrown
  /\ events # <<>>
  /\ events[Len(events)].operation = "fetchUser"
  /\ ~FetchUserKnows(events[Len(events)].argument)
  /\ Len(ResolverCalls) = 1 => (creator = Undefined /\ sharedLog = Undefined
                                /\ monitor = Undefined /\ accessLog = Undefined)
  /\ Len(ResolverCalls) = 2 => (monitor = Undefined /\ accessLog = Undefined)
  /\ result = Undefined

\* C21: one decrypt call invokes the resolver at most twice, first with the
\* creator id of the SharedLog payload and then with the monitor id of the
\* AccessLog payload, and exactly twice when it returns a SignedLog; it does
\* not invoke it when a parse or the JWE decryption fails; a call in which the
\* resolver throws UnknownUser ends with that lookup, and a call that has
\* thrown takes no further step.
ResolverUsage ==
  /\ [](/\ Len(ResolverCalls) <= 2
        /\ Len(ResolverCalls) >= 1 => ResolverCalls[1].argument = InnerSharedLog.creator
        /\ Len(ResolverCalls) >= 2 => ResolverCalls[2].argument = InnerAccessLog.monitor
        /\ Returned => Len(ResolverCalls) = 2
        /\ (Thrown /\ error \in {ErrSyntax, ErrDecryptionFailed}) => ResolverCalls = <<>>
        /\ (decryptionResult = Undefined \/ jwsSharedLog = Undefined) => ResolverCalls = <<>>
        /\ error = ErrUnknownUser => EndedByResolver)
  /\ [][pc # "thrown"]_vars

\* the creator was resolved and the resolver does not know the monitor
ResolverUsageWitness ==
  /\ Thrown
  /\ error = ErrUnknownUser
  /\ Len(ResolverCalls) = 2
  /\ creator # Undefined
  /\ sharedLog # Undefined
  /\ ResolverCalls[1].argument # ResolverCalls[2].argument

\* how far a call is: the place of its next step in the source, the two ends last
Progress(at) ==
  CASE at = "parse" -> 1
    [] at = "generalDecrypt" -> 2
    [] at = "fetchCreator" -> 3
    [] at = "verifySharedLog" -> 4
    [] at = "fetchMonitor" -> 5
    [] at = "verifyAccessLog" -> 6
    [] at = "crossLayerChecks" -> 7
    [] at \in {"returned", "thrown"} -> 8

\* C22: when every awaited operation settles, each decrypt call ends: it
\* returns a SignedLog or throws; every step moves the call forward in the
\* source, so that no step is executed twice and a step that failed, which
\* ends the call, is not tried again; a call that ended takes no step.
TerminationWithoutRetry ==
  /\ (~Done) ~> Done
  /\ [][Progress(pc') > Progress(pc)]_vars
  /\ [](Len(events) <= 5
        /\ \A k, l \in 1..Len(events) :
             (k # l /\ events[k].operation = events[l].operation)
               => (events[k].operation = "fetchUser" /\ {k, l} = {2, 4}))

\* a call that went through every awaited operation once and was rejected by
\* the last one
TerminationWithoutRetryWitness ==
  /\ Thrown
  /\ error = ErrAccessLog
  /\ Len(events) = 5
  /\ events[5].operation = "verifyAccessLog"
  /\ result = Undefined

====
